---- MODULE Spec2Model ----
(***************************************************************************)
(* The submission pipeline of the "find dupes" form (the Home component):  *)
(* the React state of the form, the handlers that edit it, and             *)
(* handleSubmit with its two awaited store calls (storage upload, record   *)
(* insert).                                                                *)
(*                                                                         *)
(* Texts are sequences of one-character strings, so that trim() and        *)
(* parseFloat() are computed character by character.  A nullable value is  *)
(* a sequence of length 0 (null) or 1 (the value).                         *)
(***************************************************************************)
EXTENDS Integers, Sequences, FiniteSets, TLC

\* ------------------------------------------------------------------ bounds
\* handleSubmit invocations in one run of the model
MaxAttempts == 2
\* values Date.now() may return
MaxClock == 2

\* ------------------------------------------------------------------ values
Null == <<>>
Some(v) == <<v>>

WhiteSpace == {" ", "\t", "\n"}
Digits == <<"0", "1", "2", "3", "4", "5", "6", "7", "8", "9">>
IsDigit(c) == \E i \in 1..10 : Digits[i] = c
DigitVal(c) == (CHOOSE i \in 1..10 : Digits[i] = c) - 1

\* String.prototype.trim
RECURSIVE TrimStart(_)
TrimStart(s) ==
  IF s # <<>> /\ Head(s) \in WhiteSpace THEN TrimStart(Tail(s)) ELSE s

RECURSIVE TrimEnd(_)
TrimEnd(s) ==
  IF s # <<>> /\ s[Len(s)] \in WhiteSpace
    THEN TrimEnd(SubSeq(s, 1, Len(s) - 1))
    ELSE s

Trim(s) == TrimEnd(TrimStart(s))

\* JavaScript truthiness of a string: '' is falsy
Truthy(s) == s # <<>>

\* the `|| null` left out
OrNull_Always(s) == Some(s)

\* x || null
OrNull(s) == IF Truthy(s) THEN Some(s) ELSE Null

\* ------------------------------------------------------------------ parseFloat
NaN == [kind |-> "nan", neg |-> FALSE, mant |-> 0, scale |-> 0]
Infinity(neg) == [kind |-> "inf", neg |-> neg, mant |-> 0, scale |-> 0]

\* the number mant * 10^(-scale), in lowest terms of the scale
RECURSIVE Num(_, _, _)
Num(neg, mant, scale) ==
  IF scale > 0 /\ mant % 10 = 0
    THEN Num(neg, mant \div 10, scale - 1)
    ELSE [kind |-> "num", neg |-> (neg /\ mant # 0), mant |-> mant, scale |-> scale]

\* the longest prefix of s made of decimal digits
RECURSIVE DigitRun(_)
DigitRun(s) ==
  IF s # <<>> /\ IsDigit(Head(s)) THEN <<Head(s)>> \o DigitRun(Tail(s)) ELSE <<>>

RECURSIVE DigitsValue(_, _)
DigitsValue(acc, ds) ==
  IF ds = <<>> THEN acc ELSE DigitsValue(acc * 10 + DigitVal(Head(ds)), Tail(ds))

StartsWith(s, p) == Len(s) >= Len(p) /\ SubSeq(s, 1, Len(p)) = p

InfinityLiteral == <<"I", "n", "f", "i", "n", "i", "t", "y">>

\* parseFloat: leading white space is skipped, then the longest prefix that is
\* a decimal literal (sign, "Infinity" or digits with an optional fraction) is
\* read and whatever follows it is ignored.  No text of the model carries an
\* exponent part.
parseFloat(s) ==
  LET t    == TrimStart(s)
      sgn  == t # <<>> /\ Head(t) \in {"+", "-"}
      neg  == t # <<>> /\ Head(t) = "-"
      u    == IF sgn THEN Tail(t) ELSE t
      ip   == DigitRun(u)
      r    == SubSeq(u, Len(ip) + 1, Len(u))
      dot  == r # <<>> /\ Head(r) = "."
      fp   == IF dot THEN DigitRun(Tail(r)) ELSE <<>>
  IN  IF StartsWith(u, InfinityLiteral) THEN Infinity(neg)
      ELSE IF ip = <<>> /\ fp = <<>> THEN NaN
      ELSE Num(neg, DigitsValue(0, ip \o fp), Len(fp))

isNaN(n) == n.kind = "nan"

\* ------------------------------------------------------------------ inputs
\* the texts a field of the draft may hold
ProductUrlTexts == {<<>>, <<" ">>, <<" ", "u", " ">>}
BudgetTexts ==
  { <<>>, <<" ">>, <<"1", "2", ".", "5">>, <<"a", "b", "c">>,
    <<"1", "2", "a", "b", "c">>, InfinityLiteral }
MaterialTexts == {<<>>, <<" ">>, <<" ", "m">>}
CommentsTexts == {<<>>, <<" ">>, <<"c", " ">>}
NameTexts == {<<>>, <<" ">>, <<"n", " ">>}
PhoneTexts == {<<>>, <<" ">>, <<" ", "7">>}

FieldNames == {"productUrl", "budget", "material", "comments", "name", "phone"}

\* the drafts a session may hold when submit is triggered
Drafts ==
  [productUrl : ProductUrlTexts, budget : BudgetTexts, material : MaterialTexts,
   comments : CommentsTexts, name : NameTexts, phone : PhoneTexts]

\* what the user types into a field (handleChange's e.target.value) in the
\* runs that interleave edits with outstanding attempts; handleChange treats
\* every field alike, and comments stay as constructed in these runs
TypedTexts(field) ==
  CASE field = "productUrl" -> {<<>>, <<" ", "u", " ">>}
    [] field = "budget"     -> {<<>>, <<"1", "2", ".", "5">>}
    [] field = "material"   -> {<<>>, <<" ", "m">>}
    [] field = "comments"   -> {<<>>}
    [] field = "name"       -> {<<>>, <<"n", " ">>}
    [] field = "phone"      -> {<<>>, <<" ", "7">>}

\* the files the user may pick, by file name
Files == {"a.png", "b.png"}

\* ------------------------------------------------------------------ the stores
\* paths the object store may report for a stored blob
StoredPaths == {<<"p1">>, <<"p2">>}

\* supabase.storage.from('mvp_bucket').getPublicUrl(path).data.publicUrl
getPublicUrl(path) == <<"https://x/">> \o path

\* how an upload may settle: { data, error } or a rejected promise
UploadResults ==
  [kind : {"data"}, path : StoredPaths] \cup
  [kind : {"error", "reject"}, path : {<<>>}]

\* how an insert may settle: { data, error: { code, message } } or a rejection
StoreCodes == {"23505", "42P01", "42703", "23502", "99999"}
InsertResults ==
  [kind : {"data", "reject"}, code : {""}, message : {<<>>}] \cup
  [kind : {"error"}, code : StoreCodes, message : {<<"timeout">>}]

\* ------------------------------------------------------------------ messages
NoMessage == <<>>
MsgMissingImage == <<"Please upload a product image">>
MsgMissingUrl == <<"Please enter a product URL">>
MsgMissingBudget == <<"Please enter your budget">>
MsgMissingName == <<"Please enter your name">>
MsgMissingPhone == <<"Please enter your phone number">>
MsgInvalidBudget == <<"Please enter a valid budget amount">>
MsgUploadFailed == <<"Failed to upload image">>
MsgGeneric == <<"There was an error submitting your request. Please try again.">>
MsgRejected == <<"network error">>

\* the Error thrown for a failed insert
InsertErrorMessage(error) ==
  IF error.code = "23505" THEN <<"This submission already exists">>
  ELSE IF error.code = "42P01" THEN <<"Table not found. Please check your database setup">>
  ELSE IF error.code = "42703" THEN <<"Invalid column name. Please check the form fields">>
  ELSE IF error.code = "23502" THEN <<"Required field missing">>
  ELSE <<"Database error: ">> \o error.message

\* the catch block: what is shown for a thrown error
CatchMessage(thrown) == MsgGeneric

\* ------------------------------------------------------------------ state
VARIABLES
  formData,       \* useState: the six text fields
  selectedImage,  \* useState<File | null>
  uploadType,     \* useState<'file' | 'url'>
  isSubmitting,   \* useState(false)
  submitError,    \* useState('')
  attempts        \* one entry per handleSubmit invocation: its closure, the
                  \* store call it awaits, the calls it issued and how it ended

vars == <<formData, selectedImage, uploadType, isSubmitting, submitError, attempts>>

EmptyForm ==
  [productUrl |-> <<>>, budget |-> <<>>, material |-> <<>>,
   comments |-> <<>>, name |-> <<>>, phone |-> <<>>]

Init ==
  /\ formData = EmptyForm
  /\ selectedImage = Null
  /\ uploadType = "file"
  /\ isSubmitting = FALSE
  /\ submitError = NoMessage
  /\ attempts = <<>>

\* ------------------------------------------------------------------ validation
\* the phone check left out
ValidationError_NoPhoneCheck(ut, img, fd) ==
  IF ut = "file" /\ img = Null THEN MsgMissingImage
  ELSE IF ut = "url" /\ ~Truthy(Trim(fd.productUrl)) THEN MsgMissingUrl
  ELSE IF ~Truthy(Trim(fd.budget)) THEN MsgMissingBudget
  ELSE IF ~Truthy(Trim(fd.name)) THEN MsgMissingName
  ELSE IF isNaN(parseFloat(fd.budget)) THEN MsgInvalidBudget
  ELSE NoMessage

\* the name check moved before the budget check
ValidationError_NameBeforeBudget(ut, img, fd) ==
  IF ut = "file" /\ img = Null THEN MsgMissingImage
  ELSE IF ut = "url" /\ ~Truthy(Trim(fd.productUrl)) THEN MsgMissingUrl
  ELSE IF ~Truthy(Trim(fd.name)) THEN MsgMissingName
  ELSE IF ~Truthy(Trim(fd.budget)) THEN MsgMissingBudget
  ELSE IF ~Truthy(Trim(fd.phone)) THEN MsgMissingPhone
  ELSE IF isNaN(parseFloat(fd.budget)) THEN MsgInvalidBudget
  ELSE NoMessage

\* the URL check left out
ValidationError_NoUrlCheck(ut, img, fd) ==
  IF ut = "file" /\ img = Null THEN MsgMissingImage
  ELSE IF ~Truthy(Trim(fd.budget)) THEN MsgMissingBudget
  ELSE IF ~Truthy(Trim(fd.name)) THEN MsgMissingName
  ELSE IF ~Truthy(Trim(fd.phone)) THEN MsgMissingPhone
  ELSE IF isNaN(parseFloat(fd.budget)) THEN MsgInvalidBudget
  ELSE NoMessage

\* the early returns of handleSubmit: the message of the first failing check,
\* or NoMessage when the try block is entered
ValidationError(ut, img, fd) ==
  IF ut = "file" /\ img = Null THEN MsgMissingImage
  ELSE IF ut = "url" /\ ~Truthy(Trim(fd.productUrl)) THEN MsgMissingUrl
  ELSE IF ~Truthy(Trim(fd.budget)) THEN MsgMissingBudget
  ELSE IF ~Truthy(Trim(fd.name)) THEN MsgMissingName
  ELSE IF ~Truthy(Trim(fd.phone)) THEN MsgMissingPhone
  ELSE IF isNaN(parseFloat(fd.budget)) THEN MsgInvalidBudget
  ELSE NoMessage

\* the row handed to insert([...])
InsertRow(imageUrl, budgetNum, fd) ==
  [product_url    |-> imageUrl,
   budget         |-> budgetNum,
   material       |-> OrNull(Trim(fd.material)),
   extra_comments |-> OrNull(Trim(fd.comments)),
   name           |-> OrNull(Trim(fd.name)),
   phone_number   |-> OrNull(Trim(fd.phone))]

\* the trim() left out
UrlModeImageUrl_Untrimmed(ut, fd) ==
  IF ut = "url" THEN Some(fd.productUrl) ELSE Null

\* the address used in URL mode (imageUrl stays null in neither branch)
UrlModeImageUrl(ut, fd) ==
  IF ut = "url" THEN Some(Trim(fd.productUrl)) ELSE Null

\* the stored path used where its public address is meant
FileModeImageUrl_StoredPath(path) == Some(path)

\* the address used after a successful upload
FileModeImageUrl(path) == Some(getPublicUrl(path))

\* the object name of an upload
ObjectName(now, img) == [now |-> now, name |-> img[1]]

\* ------------------------------------------------------------------ attempts
\* One invocation of handleSubmit.  While the upload is awaited the record
\* holds what the rest of the handler still reads (the closure's selectedImage,
\* formData and budgetNum) and the arguments of the upload; while the insert
\* is awaited it holds the row handed to insert and the path the upload
\* returned.  nUploads and nInserts count the store calls issued so far.
\* storeError is the store's error object and thrown the error caught, as
\* console.error reports them.
Attempt(pc, ut, img, fd, budgetNum, upload, path, row, nUp, nIns) ==
  [pc |-> pc, uploadType |-> ut, selectedImage |-> img, formData |-> fd,
   budgetNum |-> budgetNum, upload |-> upload, path |-> path, row |-> row,
   nUploads |-> nUp, nInserts |-> nIns,
   outcome |-> "", storeError |-> Null, thrown |-> NoMessage]

\* an attempt whose handler has returned: the closure is gone, what stays is
\* the mode it ran in, the calls it issued and how it ended
Finished(a, outcome, storeError, thrown) ==
  [Attempt("done", a.uploadType, Null, Null, Null, Null, Null, Null,
           a.nUploads, a.nInserts)
     EXCEPT !.outcome = outcome, !.storeError = storeError, !.thrown = thrown]

Outstanding == {i \in 1..Len(attempts) : attempts[i].pc # "done"}

\* ------------------------------------------------------------------ handlers
\* the insert also issued next to the upload
FirstCall_InsertsToo(now, ut, img, fd, budgetNum) ==
  IF ut = "file" /\ img # Null
    THEN Attempt("upload", ut, img, fd, Some(budgetNum),
                 Some([name |-> ObjectName(now, img), blob |-> img[1]]),
                 Null, Null, 1, 1)
    ELSE Attempt("insert", ut, Null, Null, Null, Null, Null,
                 Some(InsertRow(UrlModeImageUrl(ut, fd), budgetNum, fd)), 0, 1)

\* the try block up to its first await: the store call handleSubmit issues first
FirstCall(now, ut, img, fd, budgetNum) ==
  IF ut = "file" /\ img # Null
    THEN Attempt("upload", ut, img, fd, Some(budgetNum),
                 Some([name |-> ObjectName(now, img), blob |-> img[1]]),
                 Null, Null, 1, 0)
    ELSE Attempt("insert", ut, Null, Null, Null, Null, Null,
                 Some(InsertRow(UrlModeImageUrl(ut, fd), budgetNum, fd)), 0, 1)

\* handleSubmit up to its first await (or to its return)
HandleSubmit(now) ==
  /\ Len(attempts) < MaxAttempts
  /\ LET err == ValidationError(uploadType, selectedImage, formData)
         budgetNum == parseFloat(formData.budget)
     IN  IF err # NoMessage
           THEN /\ submitError' = err
                /\ isSubmitting' = FALSE
                /\ attempts' = Append(attempts,
                     Finished([uploadType |-> uploadType, nUploads |-> 0, nInserts |-> 0],
                              "invalid", Null, NoMessage))
           ELSE /\ submitError' = NoMessage
                /\ isSubmitting' = TRUE
                /\ attempts' = Append(attempts,
                     FirstCall(now, uploadType, selectedImage, formData, budgetNum))
  /\ UNCHANGED <<formData, selectedImage, uploadType>>

\* the button also disabled while an error is shown
ClickSubmit_NotAfterError ==
  /\ ~isSubmitting
  /\ submitError = NoMessage
  /\ \E now \in 1..MaxClock : HandleSubmit(now)

\* the submit button (disabled while isSubmitting) is clicked, or Enter is
\* pressed in a field (implicit submission goes through the default button)
ClickSubmit ==
  /\ ~isSubmitting
  /\ \E now \in 1..MaxClock : HandleSubmit(now)

\* a submit event reaches the form's onSubmit while the button is disabled
\* (form.requestSubmit(), a dispatched submit event)
SubmitEvent ==
  /\ isSubmitting
  /\ \E now \in 1..MaxClock : HandleSubmit(now)

\* the catch block also clearing the form
Fail_ClearsForm(i, res, thrown) ==
  /\ submitError' = CatchMessage(thrown)
  /\ isSubmitting' = FALSE
  /\ attempts' = [attempts EXCEPT ![i] =
       Finished(attempts[i], "failed",
                IF res.kind = "error" THEN Some(res) ELSE Null, thrown)]
  /\ formData' = EmptyForm
  /\ selectedImage' = Null
  /\ UNCHANGED uploadType

\* the finally block left out
Fail_FlagKept(i, res, thrown) ==
  /\ submitError' = CatchMessage(thrown)
  /\ attempts' = [attempts EXCEPT ![i] =
       Finished(attempts[i], "failed",
                IF res.kind = "error" THEN Some(res) ELSE Null, thrown)]
  /\ UNCHANGED <<formData, selectedImage, uploadType, isSubmitting>>

\* the catch and finally blocks
Fail(i, res, thrown) ==
  /\ submitError' = CatchMessage(thrown)
  /\ isSubmitting' = FALSE
  /\ attempts' = [attempts EXCEPT ![i] =
       Finished(attempts[i], "failed",
                IF res.kind = "error" THEN Some(res) ELSE Null, thrown)]
  /\ UNCHANGED <<formData, selectedImage, uploadType>>

\* the `if (storageError)` check left out
UploadThrows_RejectOnly(res) == res.kind = "reject"

\* does the awaited upload end in the catch block
UploadThrows(res) == res.kind # "data"
UploadThrown(res) == IF res.kind = "error" THEN MsgUploadFailed ELSE MsgRejected

\* does the awaited insert end in the catch block
InsertThrows(res) == res.kind # "data"
InsertThrown(res) == IF res.kind = "error" THEN InsertErrorMessage(res) ELSE MsgRejected

\* the row built from the form as it is when the upload settles
UploadSettle_ReadsState(i, res) ==
  /\ i \in 1..Len(attempts)
  /\ attempts[i].pc = "upload"
  /\ LET a == attempts[i]
     IN  IF UploadThrows(res)
           THEN Fail(i, res, UploadThrown(res))
           ELSE /\ attempts' =
                     [attempts EXCEPT ![i] =
                        Attempt("insert", a.uploadType, Null, Null, Null, Null,
                                 Some(res.path),
                                 Some(InsertRow(FileModeImageUrl(res.path),
                                                a.budgetNum[1], formData)),
                                 a.nUploads, a.nInserts + 1)]
                /\ UNCHANGED <<formData, selectedImage, uploadType,
                               isSubmitting, submitError>>

\* the upload of attempt i settles; on success the insert is issued
UploadSettle(i, res) ==
  /\ i \in 1..Len(attempts)
  /\ attempts[i].pc = "upload"
  /\ LET a == attempts[i]
     IN  IF UploadThrows(res)
           THEN Fail(i, res, UploadThrown(res))
           ELSE /\ attempts' =
                     [attempts EXCEPT ![i] =
                        Attempt("insert", a.uploadType, Null, Null, Null, Null,
                                 Some(res.path),
                                 Some(InsertRow(FileModeImageUrl(res.path),
                                                a.budgetNum[1], a.formData)),
                                 a.nUploads, a.nInserts + 1)]
                /\ UNCHANGED <<formData, selectedImage, uploadType,
                               isSubmitting, submitError>>

\* setSelectedImage(null) left out of the success path
InsertSettle_KeepsImage(i, res) ==
  /\ i \in 1..Len(attempts)
  /\ attempts[i].pc = "insert"
  /\ IF InsertThrows(res)
       THEN Fail(i, res, InsertThrown(res))
       ELSE /\ formData' = EmptyForm
            /\ isSubmitting' = FALSE
            /\ attempts' = [attempts EXCEPT ![i] =
                 Finished(attempts[i], "success", Null, NoMessage)]
            /\ UNCHANGED <<selectedImage, uploadType, submitError>>

\* the insert of attempt i settles
InsertSettle(i, res) ==
  /\ i \in 1..Len(attempts)
  /\ attempts[i].pc = "insert"
  /\ IF InsertThrows(res)
       THEN Fail(i, res, InsertThrown(res))
       ELSE /\ formData' = EmptyForm
            /\ selectedImage' = Null
            /\ isSubmitting' = FALSE
            /\ attempts' = [attempts EXCEPT ![i] =
                 Finished(attempts[i], "success", Null, NoMessage)]
            /\ UNCHANGED <<uploadType, submitError>>

\* handleChange: one field of the form is edited
HandleChange(field, value) ==
  /\ field = "productUrl" => uploadType = "url"
  /\ formData' = [formData EXCEPT ![field] = value]
  /\ UNCHANGED <<selectedImage, uploadType, isSubmitting, submitError, attempts>>

\* handleImageChange: the file input (shown in file mode) reports its files
HandleImageChange(files) ==
  /\ uploadType = "file"
  /\ selectedImage' = IF files # <<>> THEN Some(files[1]) ELSE selectedImage
  /\ UNCHANGED <<formData, uploadType, isSubmitting, submitError, attempts>>

\* the mode buttons also clearing the source of the other mode
SetUploadType_ClearsOther(t) ==
  /\ uploadType' = t
  /\ formData' = IF t = "file" THEN [formData EXCEPT !.productUrl = <<>>] ELSE formData
  /\ selectedImage' = IF t = "url" THEN Null ELSE selectedImage
  /\ UNCHANGED <<isSubmitting, submitError, attempts>>

\* the two mode buttons
SetUploadType(t) ==
  /\ uploadType' = t
  /\ UNCHANGED <<formData, selectedImage, isSubmitting, submitError, attempts>>

Next ==
  \/ ClickSubmit
  \/ SubmitEvent
  \/ \E i \in 1..MaxAttempts : \E res \in UploadResults : UploadSettle(i, res)
  \/ \E i \in 1..MaxAttempts : \E res \in InsertResults : InsertSettle(i, res)
  \/ \E field \in FieldNames : \E value \in TypedTexts(field) : HandleChange(field, value)
  \/ \E files \in {<<>>} \cup {<<f>> : f \in Files} : HandleImageChange(files)
  \/ \E t \in {"file", "url"} : SetUploadType(t)

Spec == Init /\ [][Next]_vars

\* ------------------------------------------------------------------ drafts
\* Submissions of every draft: the session has been edited into some draft,
\* mode and image selection, and from there only handleSubmit runs.
InitDrafts ==
  /\ formData \in Drafts
  /\ selectedImage \in {Null} \cup {Some(f) : f \in Files}
  /\ uploadType \in {"file", "url"}
  /\ isSubmitting = FALSE
  /\ submitError = NoMessage
  /\ attempts = <<>>

NextDrafts ==
  \/ ClickSubmit
  \/ SubmitEvent
  \/ \E i \in 1..MaxAttempts : \E res \in UploadResults : UploadSettle(i, res)
  \/ \E i \in 1..MaxAttempts : \E res \in InsertResults : InsertSettle(i, res)

SpecDrafts == InitDrafts /\ [][NextDrafts]_vars

\* ------------------------------------------------------------------ settling
\* Every store call that was issued settles: the awaited promise of each
\* attempt is resolved or rejected in the end.
SpecLive ==
  /\ SpecDrafts
  /\ \A i \in 1..MaxAttempts :
       /\ WF_vars(\E res \in UploadResults : UploadSettle(i, res))
       /\ WF_vars(\E res \in InsertResults : InsertSettle(i, res))

\* ================================================================== claims
\* the words of the claims, stated without the operators handleSubmit uses
Blank(s) == \A k \in 1..Len(s) : s[k] \in WhiteSpace

\* t is s without its leading and trailing white space
IsTrimOf(t, s) ==
  /\ \E i \in 0..Len(s) : \E j \in i..Len(s) :
        /\ t = SubSeq(s, i + 1, j)
        /\ \A k \in 1..i : s[k] \in WhiteSpace
        /\ \A k \in (j + 1)..Len(s) : s[k] \in WhiteSpace
  /\ t # <<>> => (t[1] \notin WhiteSpace /\ t[Len(t)] \notin WhiteSpace)

\* this step is an invocation of handleSubmit, and the attempt it starts
Triggered == Len(attempts') = Len(attempts) + 1
Started == attempts'[Len(attempts')]

\* in this step attempt i hands its row to insert
InsertIssued(i) ==
  /\ i \in 1..Len(attempts')
  /\ attempts'[i].pc = "insert"
  /\ i \in 1..Len(attempts) => attempts[i].pc = "upload"

\* in this step attempt i, awaiting the call of phase pc, is finished
Settled(i, pc) ==
  /\ i \in 1..Len(attempts)
  /\ attempts[i].pc = pc
  /\ attempts'[i].pc = "done"

\* the draft attempt i works on when it hands its row to insert
DraftOf(i) == IF i \in 1..Len(attempts) THEN attempts[i].formData ELSE formData

\* ------------------------------------------------------------------ C1
\* C1: a submit trigger that arrives while an earlier attempt is still
\* outstanding is a no-op: it issues no upload and no insert and leaves the
\* submitting flag and the error message as they are.
C1_SecondTriggerIsNoOp ==
  [][(Triggered /\ Outstanding # {}) =>
       /\ Started.nUploads = 0
       /\ Started.nInserts = 0
       /\ UNCHANGED <<isSubmitting, submitError>>]_vars

\* ------------------------------------------------------------------ C2
\* the message table of the claim
C2_Message(error) ==
  CASE error.code = "23505" -> <<"This submission already exists">>
    [] error.code = "42P01" -> <<"Table not found. Please check your database setup">>
    [] error.code = "42703" -> <<"Invalid column name. Please check the form fields">>
    [] error.code = "23502" -> <<"Required field missing">>
    [] OTHER -> <<"Database error: ">> \o error.message

\* C2: when the insert fails with a store error, the attempt ends in ERROR and
\* the message shown is the one the table maps the store's error code to.
C2_InsertFailureShowsMappedMessage ==
  [][\A i \in 1..Len(attempts) :
       (Settled(i, "insert") /\ attempts'[i].storeError # Null) =>
          /\ ~isSubmitting'
          /\ submitError' = C2_Message(attempts'[i].storeError[1])]_vars

\* ------------------------------------------------------------------ C3
C3_UploadFailedMessage == <<"Failed to upload image">>

\* C3: when the upload fails, the attempt ends in ERROR and the message shown
\* is the upload-failure message.
C3_UploadFailureShowsUploadMessage ==
  [][\A i \in 1..Len(attempts) :
       (Settled(i, "upload") /\ attempts'[i].storeError # Null) =>
          /\ ~isSubmitting'
          /\ submitError' = C3_UploadFailedMessage]_vars

\* ------------------------------------------------------------------ C4
\* C4: in FILE mode the insert of an attempt is issued only after its upload
\* has returned a stored path and the address is resolved; while the upload is
\* outstanding no insert of that attempt is; an attempt whose upload failed
\* has issued no insert.
C4_InsertOnlyAfterUpload ==
  \A i \in 1..Len(attempts) :
    LET a == attempts[i]
    IN  /\ a.pc = "upload" => (a.nInserts = 0 /\ a.row = Null)
        /\ (a.pc = "insert" /\ a.uploadType = "file") =>
              /\ a.nUploads = 1
              /\ a.upload = Null
              /\ a.path \in {Some(p) : p \in StoredPaths}
              /\ a.row[1].product_url # Null
        /\ (a.uploadType = "file" /\ a.nInserts > 0) => a.nUploads = 1
        /\ (a.pc = "done" /\ a.thrown = MsgUploadFailed) => a.nInserts = 0

\* an attempt in FILE mode whose upload has succeeded awaits its insert
C4_Witness ==
  \E i \in 1..Len(attempts) :
    /\ attempts[i].uploadType = "file"
    /\ attempts[i].pc = "insert"
    /\ attempts[i].nUploads = 1
    /\ attempts[i].nInserts = 1

\* ------------------------------------------------------------------ C5
\* a text parseFloat reads a number from: after leading white space and one
\* optional sign come a digit, a point and a digit, or "Infinity"
CharAt(s, k) == IF k \in 1..Len(s) THEN s[k] ELSE ""

ReadsAsNumber(s) ==
  LET k == CHOOSE n \in 0..Len(s) :
             /\ \A j \in 1..n : s[j] \in WhiteSpace
             /\ CharAt(s, n + 1) \notin WhiteSpace
      b == IF CharAt(s, k + 1) \in {"+", "-"} THEN k + 2 ELSE k + 1
  IN  \/ IsDigit(CharAt(s, b))
      \/ CharAt(s, b) = "." /\ IsDigit(CharAt(s, b + 1))
      \/ \A n \in 1..8 : CharAt(s, b + n - 1) = InfinityLiteral[n]

\* the six checks of the validator, each on its own
MissingImage(ut, img) == ut = "file" /\ img = Null
MissingUrl(ut, fd) == ut = "url" /\ Blank(fd.productUrl)
MissingBudget(fd) == Blank(fd.budget)
MissingName(fd) == Blank(fd.name)
MissingPhone(fd) == Blank(fd.phone)
InvalidBudget(fd) == ~ReadsAsNumber(fd.budget)

FailsACheck(ut, img, fd) ==
  \/ MissingImage(ut, img)
  \/ MissingUrl(ut, fd)
  \/ MissingBudget(fd)
  \/ MissingName(fd)
  \/ MissingPhone(fd)
  \/ InvalidBudget(fd)

ValidationReasons ==
  { <<"Please upload a product image">>, <<"Please enter a product URL">>,
    <<"Please enter your budget">>, <<"Please enter your name">>,
    <<"Please enter your phone number">>, <<"Please enter a valid budget amount">> }

\* C5: an attempt on a draft that fails one of the six checks calls neither
\* store, then or later, and ends in ERROR with a validation reason.
C5_InvalidDraftReachesNoStore ==
  [][/\ (Triggered /\ FailsACheck(uploadType, selectedImage, formData)) =>
          /\ Started.pc = "done"
          /\ Started.outcome = "invalid"
          /\ Started.nUploads = 0 /\ Started.nInserts = 0
          /\ Started.upload = Null /\ Started.row = Null
          /\ ~isSubmitting'
          /\ submitError' \in ValidationReasons
     /\ \A i \in 1..Len(attempts) :
          attempts[i].outcome = "invalid" => attempts'[i] = attempts[i]]_vars

\* an attempt on a draft with a blank phone has ended in ERROR without a call
C5_Witness ==
  /\ Blank(formData.phone)
  /\ ~isSubmitting
  /\ submitError = <<"Please enter your phone number">>
  /\ \E i \in 1..Len(attempts) :
       /\ attempts[i].outcome = "invalid"
       /\ attempts[i].nUploads = 0 /\ attempts[i].nInserts = 0

\* ------------------------------------------------------------------ C6
\* the reason of the first failing check in the order of the claim
FirstFailingReason(ut, img, fd) ==
  CASE MissingImage(ut, img) -> <<"Please upload a product image">>
    [] ~MissingImage(ut, img) /\ MissingUrl(ut, fd) -> <<"Please enter a product URL">>
    [] ~MissingImage(ut, img) /\ ~MissingUrl(ut, fd) /\ MissingBudget(fd) ->
         <<"Please enter your budget">>
    [] ~MissingImage(ut, img) /\ ~MissingUrl(ut, fd) /\ ~MissingBudget(fd)
         /\ MissingName(fd) -> <<"Please enter your name">>
    [] ~MissingImage(ut, img) /\ ~MissingUrl(ut, fd) /\ ~MissingBudget(fd)
         /\ ~MissingName(fd) /\ MissingPhone(fd) -> <<"Please enter your phone number">>
    [] ~MissingImage(ut, img) /\ ~MissingUrl(ut, fd) /\ ~MissingBudget(fd)
         /\ ~MissingName(fd) /\ ~MissingPhone(fd) /\ InvalidBudget(fd) ->
         <<"Please enter a valid budget amount">>
    [] OTHER -> <<>>

\* C6: validation reports the reason of the first failing check in the fixed
\* order and no other; FILE mode without a file reports the missing image
\* whatever the other fields hold; a draft that fails no check is accepted.
C6_FirstFailingCheckIsReported ==
  [][Triggered =>
       LET reason == FirstFailingReason(uploadType, selectedImage, formData)
       IN  /\ submitError' = reason
           /\ (reason # <<>>) = (Started.outcome = "invalid")
           /\ (reason = <<>>) = (Started.pc # "done")
           /\ (uploadType = "file" /\ selectedImage = Null) =>
                 submitError' = <<"Please upload a product image">>]_vars

\* FILE mode, no file, a populated productUrl: the missing image is reported
C6_Witness ==
  /\ uploadType = "file"
  /\ selectedImage = Null
  /\ ~Blank(formData.productUrl)
  /\ Blank(formData.budget)
  /\ Len(attempts) = 1
  /\ attempts[1].outcome = "invalid"
  /\ submitError = <<"Please upload a product image">>

\* ------------------------------------------------------------------ C7
\* C7: in URL mode a draft that passes validation goes straight to the insert:
\* no upload is issued and no address resolved, whether or not a file is
\* selected, and the row's product_url is the trimmed productUrl.
C7_UrlModeSkipsObjectStore ==
  [][/\ (Triggered /\ uploadType = "url"
           /\ ~FailsACheck(uploadType, selectedImage, formData)) =>
          /\ Started.pc = "insert"
          /\ Started.nUploads = 0 /\ Started.nInserts = 1
          /\ Started.row # Null
          /\ Started.row[1].product_url # Null
          /\ IsTrimOf(Started.row[1].product_url[1], formData.productUrl)
     /\ \A i \in 1..Len(attempts') :
          attempts'[i].uploadType = "url" =>
             /\ attempts'[i].nUploads = 0
             /\ attempts'[i].upload = Null
             /\ attempts'[i].path = Null]_vars

\* URL mode with a file selected as well: the insert carries the trimmed URL
C7_Witness ==
  /\ selectedImage # Null
  /\ formData.productUrl = <<" ", "u", " ">>
  /\ \E i \in 1..Len(attempts) :
       /\ attempts[i].uploadType = "url"
       /\ attempts[i].pc = "insert"
       /\ attempts[i].nUploads = 0
       /\ attempts[i].row[1].product_url = Some(<<"u">>)

\* ------------------------------------------------------------------ C8
\* C8: when the upload of an attempt succeeds, the row it hands to insert has
\* as product_url the address the object store resolves for the path that
\* upload returned, whatever the draft's productUrl holds.
C8_FileModeUsesResolvedAddress ==
  [][\A i \in 1..Len(attempts) :
       InsertIssued(i) =>
          /\ attempts'[i].path # Null
          /\ attempts'[i].path[1] \in StoredPaths
          /\ attempts'[i].row[1].product_url =
               Some(getPublicUrl(attempts'[i].path[1]))]_vars

\* FILE mode with a populated productUrl: the insert carries the address of
\* the stored path
C8_Witness ==
  /\ ~Blank(formData.productUrl)
  /\ \E i \in 1..Len(attempts) :
       /\ attempts[i].uploadType = "file"
       /\ attempts[i].pc = "insert"
       /\ attempts[i].path = Some(<<"p2">>)
       /\ attempts[i].row[1].product_url = Some(<<"https://x/", "p2">>)

\* ------------------------------------------------------------------ C9
\* a text that is a finite decimal number and nothing else
IsDecimalText(t) ==
  LET b == IF CharAt(t, 1) \in {"+", "-"} THEN 2 ELSE 1
  IN  /\ \A k \in b..Len(t) : IsDigit(t[k]) \/ t[k] = "."
      /\ \E k \in b..Len(t) : IsDigit(t[k])
      /\ Cardinality({k \in b..Len(t) : t[k] = "."}) <= 1

FiniteDecimal(s) ==
  \E i \in 0..Len(s) : \E j \in i..Len(s) :
     /\ IsTrimOf(SubSeq(s, i + 1, j), s)
     /\ IsDecimalText(SubSeq(s, i + 1, j))

\* C9: an attempt whose budget text is not a finite decimal number (and whose
\* draft passes the five checks before) ends in ERROR with the invalid-budget
\* reason and issues no insert; every row handed to insert carries a finite
\* budget.
C9_OnlyFiniteDecimalBudgetsInserted ==
  [][/\ (/\ Triggered
         /\ ~MissingImage(uploadType, selectedImage)
         /\ ~MissingUrl(uploadType, formData)
         /\ ~MissingBudget(formData)
         /\ ~MissingName(formData)
         /\ ~MissingPhone(formData)
         /\ ~FiniteDecimal(formData.budget)) =>
          /\ submitError' = <<"Please enter a valid budget amount">>
          /\ Started.outcome = "invalid"
          /\ Started.nInserts = 0
     /\ \A i \in 1..Len(attempts') :
          InsertIssued(i) => attempts'[i].row[1].budget.kind = "num"]_vars

\* ------------------------------------------------------------------ C10
\* a nullable text of the row against the field it is built from
Normalized(v, input) ==
  IF Blank(input)
    THEN v = Null
    ELSE /\ v # Null
         /\ v[1] # <<>>
         /\ IsTrimOf(v[1], input)

\* C10: in every row handed to insert, material, extra_comments, name and
\* phone_number are null when the field is empty or white space only, and the
\* non-empty trimmed text of the field otherwise.
C10_BlankTextsBecomeNull ==
  [][\A i \in 1..Len(attempts') :
       InsertIssued(i) =>
          LET fd == DraftOf(i)
              row == attempts'[i].row[1]
          IN  /\ Normalized(row.material, fd.material)
              /\ Normalized(row.extra_comments, fd.comments)
              /\ Normalized(row.name, fd.name)
              /\ Normalized(row.phone_number, fd.phone)]_vars

\* a row built from a white-space-only material and a padded comment
C10_Witness ==
  /\ formData.material = <<" ">>
  /\ formData.comments = <<"c", " ">>
  /\ \E i \in 1..Len(attempts) :
       /\ attempts[i].pc = "insert"
       /\ attempts[i].row[1].material = Null
       /\ attempts[i].row[1].extra_comments = Some(<<"c">>)


\* ------------------------------------------------------------------ C11
\* in this step attempt i ends in SUCCESS
Succeeds(i) == Settled(i, "insert") /\ attempts'[i].outcome = "success"

\* in this step attempt i ends in ERROR after a store call
FailsAfterCall(i) ==
  (Settled(i, "upload") \/ Settled(i, "insert")) /\ attempts'[i].outcome = "failed"

\* C11: when an attempt ends in SUCCESS the submitting flag is cleared and the
\* draft is its empty default: every text field is empty and no file is
\* selected, whatever was typed or picked while the attempt was outstanding.
C11_SuccessResetsDraft ==
  [][\A i \in 1..Len(attempts) :
       Succeeds(i) =>
          /\ ~isSubmitting'
          /\ \A field \in FieldNames : formData'[field] = <<>>
          /\ selectedImage' = Null]_vars

\* an attempt started in FILE mode has ended in SUCCESS after the mode was
\* changed, and the draft is empty
C11_Witness ==
  /\ Len(attempts) = 1
  /\ attempts[1].outcome = "success"
  /\ attempts[1].uploadType = "file"
  /\ uploadType = "url"
  /\ ~isSubmitting
  /\ formData = EmptyForm
  /\ selectedImage = Null

\* ------------------------------------------------------------------ C12
\* C12: the step by which an attempt ends in ERROR (failed validation, failed
\* upload, failed insert) leaves the text fields, the selected image and the
\* mode as they are, clears the submitting flag and leaves one non-empty
\* message.
C12_ErrorKeepsDraft ==
  [][(\/ Triggered /\ Started.outcome = "invalid"
      \/ \E i \in 1..Len(attempts) : FailsAfterCall(i)) =>
       /\ UNCHANGED <<formData, selectedImage, uploadType>>
       /\ ~isSubmitting'
       /\ Len(submitError') = 1
       /\ submitError'[1] # ""]_vars

\* an attempt has failed after a store call and the draft is still filled in
C12_Witness ==
  /\ ~isSubmitting
  /\ submitError # <<>>
  /\ ~Blank(formData.budget) /\ ~Blank(formData.name) /\ ~Blank(formData.phone)
  /\ selectedImage # Null
  /\ \E i \in 1..Len(attempts) :
       /\ attempts[i].outcome = "failed"
       /\ attempts[i].nUploads = 1


\* ------------------------------------------------------------------ C13
\* C13: the submitting flag is set by the step that issues the first store
\* call of an attempt and cleared by every step that ends an attempt (failed
\* validation, failed or rejected upload, failed or rejected insert, success);
\* when every store call settles, every outstanding attempt is finished in the
\* end, with the flag false.
C13_FlagSetThenCleared ==
  /\ [][/\ Triggered => (isSubmitting' = (Started.pc # "done"))
        /\ (Triggered /\ Started.pc # "done") =>
              (Started.nUploads + Started.nInserts = 1)
        /\ \A i \in 1..Len(attempts) :
              (Succeeds(i) \/ FailsAfterCall(i)) => ~isSubmitting']_vars
  /\ \A i \in 1..MaxAttempts :
       (i \in Outstanding) ~> (i \notin Outstanding /\ ~isSubmitting)

\* an attempt whose insert was rejected is finished and the flag is false
C13_Witness ==
  /\ ~isSubmitting
  /\ Outstanding = {}
  /\ \E i \in 1..Len(attempts) :
       /\ attempts[i].outcome = "failed"
       /\ attempts[i].thrown = MsgRejected
       /\ attempts[i].nInserts = 1


\* ------------------------------------------------------------------ C14
\* C14: in IDLE, SUCCESS and ERROR alike (the submitting flag is false, with
\* or without a message, after any attempts that failed or succeeded) the
\* submit button starts a new attempt; the model stops counting at MaxAttempts
\* invocations.
C14_SubmitAlwaysPossible ==
  []((~isSubmitting /\ Len(attempts) < MaxAttempts) => ENABLED ClickSubmit)

\* in ERROR after a failed insert, with the message shown, submit is possible
C14_Witness ==
  /\ ~isSubmitting
  /\ submitError # <<>>
  /\ Len(attempts) = 1
  /\ attempts[1].outcome = "failed"
  /\ ENABLED ClickSubmit


\* ------------------------------------------------------------------ C15
\* C15: an attempt issues at most one upload and at most one insert, an
\* attempt that has ended in ERROR or SUCCESS issues nothing more, and an
\* attempt that ended in SUCCESS has issued exactly one insert.
C15_OneTryPerAttempt ==
  [][\A i \in 1..Len(attempts') :
       LET a == attempts'[i]
       IN  /\ a.nUploads \in {0, 1}
           /\ a.nInserts \in {0, 1}
           /\ a.outcome = "success" => a.nInserts = 1
           /\ (i \in 1..Len(attempts) /\ attempts[i].pc = "done") =>
                 a = attempts[i]]_vars

\* a FILE-mode attempt has ended in SUCCESS after one upload and one insert,
\* and another has failed after its one upload
C15_Witness ==
  \E i, j \in 1..Len(attempts) :
    /\ attempts[i].outcome = "success"
    /\ attempts[i].nUploads = 1 /\ attempts[i].nInserts = 1
    /\ attempts[j].outcome = "failed"
    /\ attempts[j].nUploads = 1 /\ attempts[j].nInserts = 0


\* ------------------------------------------------------------------ C16
\* C16: a step that changes the mode changes nothing else: the text fields,
\* the selected file, the submitting flag, the error message and the attempts
\* stay as they are.
C16_ModeChangeChangesOnlyMode ==
  [][uploadType' # uploadType =>
       UNCHANGED <<formData, selectedImage, isSubmitting, submitError, attempts>>]_vars

\* back in FILE mode after a URL was typed in URL mode: the file picked
\* before and the URL are both still there
C16_Witness ==
  /\ uploadType = "file"
  /\ selectedImage = Some("b.png")
  /\ formData.productUrl = <<" ", "u", " ">>
  /\ attempts = <<>>


\* ------------------------------------------------------------------ C17
\* C17: what an attempt uploads and inserts is built from the draft and the
\* mode of the moment its submit was triggered.  The blob, the mode and the
\* draft an attempt starts with are those of the form at the trigger; no step
\* other than the settling of the attempt's own call touches the attempt; and
\* the row handed to insert after the upload is built from the draft the
\* attempt started with, whatever the form holds by then.
C17_AttemptUsesTriggerTimeDraft ==
  [][/\ (Triggered /\ Started.pc = "upload") =>
          /\ Started.uploadType = uploadType
          /\ Started.upload[1].blob = selectedImage[1]
          /\ Started.formData = formData
          /\ Started.budgetNum = Some(parseFloat(formData.budget))
     /\ (Triggered /\ Started.pc = "insert") =>
          /\ Started.uploadType = uploadType
          /\ Started.row = Some(InsertRow(Some(Trim(formData.productUrl)),
                                          parseFloat(formData.budget), formData))
     /\ \A i \in 1..Len(attempts) :
          /\ attempts'[i].pc = attempts[i].pc => attempts'[i] = attempts[i]
          /\ InsertIssued(i) =>
               /\ attempts'[i].uploadType = attempts[i].uploadType
               /\ attempts'[i].row[1] =
                    InsertRow(attempts'[i].row[1].product_url,
                              attempts[i].budgetNum[1], attempts[i].formData)]_vars

\* while the upload of a FILE-mode attempt is outstanding the user has picked
\* another file, emptied the name field and switched to URL mode
C17_Witness ==
  /\ Len(attempts) = 1
  /\ attempts[1].pc = "upload"
  /\ attempts[1].uploadType = "file"
  /\ attempts[1].upload[1].blob = "a.png"
  /\ attempts[1].formData.name = <<"n", " ">>
  /\ selectedImage = Some("b.png")
  /\ formData.name = <<>>
  /\ uploadType = "url"


\* ------------------------------------------------------------------ C18
\* C18: in every reachable state in which an upload or an insert of any
\* attempt is outstanding, the submitting flag is true.
C18_FlagTrueWhileCallOutstanding == Outstanding # {} => isSubmitting

\* ------------------------------------------------------------------ C19
\* C19: every row handed to insert has a product_url that is neither null nor
\* the empty text, and the address was assigned by exactly one branch: by the
\* upload in FILE mode (one upload, a stored path), by the pass-through in
\* URL mode (no upload, no stored path).
C19_InsertedRowHasProductUrl ==
  \A i \in 1..Len(attempts) :
    attempts[i].pc = "insert" =>
      /\ attempts[i].row # Null
      /\ attempts[i].row[1].product_url # Null
      /\ attempts[i].row[1].product_url[1] # <<>>
      /\ attempts[i].uploadType = "file" =>
           (attempts[i].nUploads = 1 /\ attempts[i].path # Null)
      /\ attempts[i].uploadType = "url" =>
           (attempts[i].nUploads = 0 /\ attempts[i].path = Null)

\* two FILE-mode attempts have had their blobs stored and have handed their
\* rows, each with a non-empty address, to insert
C19_Witness ==
  /\ Len(attempts) = 2
  /\ \A i \in 1..2 :
       /\ attempts[i].pc = "insert"
       /\ attempts[i].uploadType = "file"
       /\ attempts[i].path # Null
       /\ attempts[i].row[1].product_url # Null
       /\ attempts[i].row[1].product_url[1] # <<>>

\* ------------------------------------------------------------------ C20
\* C20: the error message is cleared when an attempt starts its store calls
\* and is set only by a step in which an attempt fails; when an attempt
\* succeeds and leaves no attempt outstanding, no error message is shown.
C20_NoStaleErrorAfterSuccess ==
  [][/\ (Triggered /\ Started.outcome # "invalid") => submitError' = NoMessage
     /\ (submitError' # submitError /\ submitError' # NoMessage) =>
          \/ Triggered /\ Started.outcome = "invalid"
          \/ \E i \in 1..Len(attempts) : FailsAfterCall(i)
     /\ \A i \in 1..Len(attempts) :
          (Succeeds(i) /\ \A j \in 1..Len(attempts') : attempts'[j].pc = "done")
             => submitError' = NoMessage]_vars

====
